---- MODULE Spec2Model ----
(***************************************************************************)
(* The SRF codec of srf_converter: Png2Srf (png2srf.py) writes an SRF      *)
(* stream from an image and its info file, Srf2Png (srf2png.py) reads one  *)
(* back.  Byte streams are sequences of 0..255; a file cursor is a 0-based *)
(* offset; the two converter instances are records of their fields.       *)
(***************************************************************************)
EXTENDS Integers, Sequences, FiniteSets, Bags, TLC

(* ------------------------------ bounds -------------------------------- *)
\* most sections an info file lists (besides the full list of MaxLabel)
MaxSections == 4
\* largest section width / height an info file gives
MaxDim == 2
\* number of distinct test patterns an image file may hold
NumSeeds == 2
\* most sections of the streams whose every truncation is decoded
MaxTruncSections == 2
\* the most calls of convert on one Png2Srf instance
MaxConverts == 2

(* ------------------------- program constants -------------------------- *)
\* section_widths / section_heights = [0] * 10
ArrayLen == 10
\* SectionWidth<d> / SectionHeight<d>: one digit, section_num > 0
MaxLabel == 9
\* if self.section_count > 9
MaxSectionCount == 9

Min(a, b) == IF a < b THEN a ELSE b
Max(a, b) == IF a > b THEN a ELSE b

(* ------------- Python integer operators on unbounded ints ------------- *)
\* bit k of a (two's complement for a negative a: floor division)
Bit(a, k) == (a \div (2 ^ k)) % 2

\* a & b for a mask b >= 0 (a may be negative), one byte per step
RECURSIVE And(_, _)
And(a, b) ==
    IF b = 0 THEN 0
    ELSE Bit(a, 0) * Bit(b, 0) + 2 * Bit(a, 1) * Bit(b, 1)
         + 4 * Bit(a, 2) * Bit(b, 2) + 8 * Bit(a, 3) * Bit(b, 3)
         + 16 * Bit(a, 4) * Bit(b, 4) + 32 * Bit(a, 5) * Bit(b, 5)
         + 64 * Bit(a, 6) * Bit(b, 6) + 128 * Bit(a, 7) * Bit(b, 7)
         + 256 * And(a \div 256, b \div 256)

\* x | y of two bits
BitOr(x, y) == IF x = 1 \/ y = 1 THEN 1 ELSE 0

\* a | b for a, b >= 0, one byte per step
RECURSIVE Or(_, _)
Or(a, b) ==
    IF a = 0 THEN b
    ELSE IF b = 0 THEN a
    ELSE BitOr(Bit(a, 0), Bit(b, 0)) + 2 * BitOr(Bit(a, 1), Bit(b, 1))
         + 4 * BitOr(Bit(a, 2), Bit(b, 2)) + 8 * BitOr(Bit(a, 3), Bit(b, 3))
         + 16 * BitOr(Bit(a, 4), Bit(b, 4)) + 32 * BitOr(Bit(a, 5), Bit(b, 5))
         + 64 * BitOr(Bit(a, 6), Bit(b, 6)) + 128 * BitOr(Bit(a, 7), Bit(b, 7))
         + 256 * Or(a \div 256, b \div 256)

Shl(a, n) == a * (2 ^ n)
Shr(a, n) == a \div (2 ^ n)

\* s[lo] + ... + s[hi], by halves
RECURSIVE SumRange(_, _, _)
SumRange(s, lo, hi) ==
    IF lo > hi THEN 0
    ELSE IF lo = hi THEN s[lo]
    ELSE LET mid == (lo + hi) \div 2
         IN SumRange(s, lo, mid) + SumRange(s, mid + 1, hi)

\* the sum of the bytes of s: the cardinality of the bag holding each
\* position i of a nonzero byte s[i] times
SumBytes(s) == BagCardinality([i \in {j \in 1..Len(s) : s[j] > 0} |-> s[i]])

\* lst[:c]
Slice(lst, c) ==
    SubSeq(lst, 1, IF c < 0 THEN Max(0, Len(lst) + c) ELSE Min(c, Len(lst)))

\* max(lst) / sum(lst) of a non-empty / any list
MaxOf(lst) ==
    CHOOSE m \in {lst[i] : i \in 1..Len(lst)} : \A i \in 1..Len(lst) : lst[i] <= m
SumOf(lst) == SumRange(lst, 1, Len(lst))

(* ----------------------------- PixelCodec ----------------------------- *)
\* Png2Srf._encode_color
encode_color(color) ==
    LET r == Shr(And(color, 16711680), 19)
        g == Shr(And(color, 65280), 11)
        b == Shr(And(color, 255), 3)
    IN Or(Or(Shl(r, 11), Shl(g, 5)), b)

\* Srf2Png._decode_color
decode_color(b1, b2) ==
    LET v == Shl(b2, 8) + b1
        r == Shl(Shr(And(v, 63488), 11), 3)
        g == Shl(Shr(And(v, 2016), 5), 2)
        b == Shl(And(v, 31), 3)
    IN <<r, g, b>>

\* Png2Srf._encode_alpha
encode_alpha(alpha) ==
    LET a == Shr(255 - And(alpha, 255), 1)
    IN IF a = 127 THEN 128 ELSE a

\* Srf2Png._decode_alpha without the clamp of a >= 254
decode_alpha_unclamped(b) == 255 - Shl(And(b, 255), 1)

\* Srf2Png._decode_alpha
decode_alpha(b) ==
    LET a == Shl(And(b, 255), 1)
    IN 255 - (IF a >= 254 THEN 255 ELSE a)

\* color = (pixel[0] << 16) | (pixel[1] << 8) | pixel[2]
pack_color(r, g, b) == Or(Or(Shl(r, 16), Shl(g, 8)), b)

(* ------------------- the writer: srf_file + checksum ------------------ *)
\* A writer state is [file |-> bytes written so far, checksum |-> self.checksum].

\* srf_file.write(bytes([b])); self.checksum += b
write_byte(s, b) == [file |-> Append(s.file, b), checksum |-> s.checksum + b]

\* the bytes of the loop of _write_int32 / _write_int16: n times
\* "byte = value & 0xFF; value >>= 8", low byte first
le_bytes(value, n) == [k \in 1..n |-> And(Shr(value, 8 * (k - 1)), 255)]

\* the loop writes each byte and adds it to the checksum
write_le(s, value, n) ==
    LET data == le_bytes(value, n)
    IN [file |-> s.file \o data, checksum |-> s.checksum + SumBytes(data)]

write_int32(s, value) == write_le(s, value, 4)
write_int16(s, value) == write_le(s, value, 2)

\* self.checksum += byte for each byte
add_bytes_to_checksum(checksum, byte_data) == checksum + SumBytes(byte_data)

\* srf_file.write(data); self._add_bytes_to_checksum(data)
write_bytes(s, data) ==
    [file |-> s.file \o data,
     checksum |-> add_bytes_to_checksum(s.checksum, data)]

write_p_string(s, string) == write_bytes(write_int32(s, Len(string)), string)

\* b"GARMIN BITMAP 01"
file_id == <<71, 65, 82, 77, 73, 78, 32, 66, 73, 84, 77, 65, 80, 32, 48, 49>>
\* "578", "1.00", "006-D0578-XX"
str_578 == <<53, 55, 56>>
str_version == <<49, 46, 48, 48>>
str_product == <<48, 48, 54, 45, 68, 48, 53, 55, 56, 45, 88, 88>>

write_srf_header(s, section_count) ==
    LET s1 == write_bytes(s, file_id)
        s2 == write_int32(write_int32(s1, 4), 4)
        s3 == write_int32(s2, section_count)
        s4 == write_p_string(write_int32(s3, 5), str_578)
        s5 == write_p_string(write_int32(s4, 6), str_version)
    IN write_p_string(write_int32(s5, 7), str_product)

\* the padding loop of _write_srf_footer: n times write 0xff and add it
write_padding(s, n) ==
    [file |-> s.file \o [k \in 1..n |-> 255], checksum |-> s.checksum + 255 * n]

\* _write_srf_footer whose padding bytes are not added to the checksum
write_srf_footer_unsummed(s) ==
    LET bytes_written == Len(s.file)
        bytes_to_write == 255 - (bytes_written % 256)
        p == [file |-> s.file \o [k \in 1..bytes_to_write |-> 255],
              checksum |-> s.checksum]
        checkbyte == And(256 - And(p.checksum, 255), 255)
    IN [file |-> Append(p.file, checkbyte), checksum |-> p.checksum]

\* _write_srf_footer padding to a multiple of 256 before the checkbyte
write_srf_footer_pad256(s) ==
    LET bytes_written == Len(s.file)
        bytes_to_write == 256 - (bytes_written % 256)
        p == write_padding(s, bytes_to_write)
        checkbyte == And(256 - And(p.checksum, 255), 255)
    IN [file |-> Append(p.file, checkbyte), checksum |-> p.checksum]

\* Png2Srf._write_srf_footer; the checkbyte is written, not accumulated
write_srf_footer(s) ==
    LET bytes_written == Len(s.file)
        bytes_to_write == 255 - (bytes_written % 256)
        p == write_padding(s, bytes_to_write)
        checkbyte == And(256 - And(p.checksum, 255), 255)
    IN [file |-> Append(p.file, checkbyte), checksum |-> p.checksum]

(* ------------------- the raster images (PIL.Image) -------------------- *)
\* An opened image is [mode, width, height, seed]: its pixels are the test
\* pattern of its seed.  Mode RGBA / RGB / LA pixels are tuples of 4 / 3 / 2
\* channels, a mode L pixel is a scalar.  NoImage is None.
NoImage == [mode |-> "none", width |-> 0, height |-> 0, seed |-> 0]
Modes == {"RGBA", "RGB", "LA", "L"}
Bands(mode) == CASE mode = "RGBA" -> 4 [] mode = "RGB" -> 3 [] mode = "LA" -> 2 [] OTHER -> 1

Palette == <<255, 0, 1, 254, 128, 7, 248, 100>>
ChannelValue(seed, x, y, k) == Palette[((3 * seed + x + 2 * y + 3 * k) % Len(Palette)) + 1]

\* Image.getpixel((x, y)): IndexError outside the image
getpixel(img, x, y) ==
    IF x < 0 \/ x >= img.width \/ y < 0 \/ y >= img.height
    THEN [ok |-> FALSE, tuple |-> FALSE, ch |-> <<>>]
    ELSE [ok |-> TRUE, tuple |-> img.mode # "L",
          ch |-> [k \in 1..Bands(img.mode) |-> ChannelValue(img.seed, x, y, k)]]

\* the alpha of one pixel, lines 243-256: [ok, alpha]; not ok when getpixel
\* raises or len() is taken of a scalar pixel
read_alpha(rgb_image, mask_image, x, y) ==
    IF mask_image # NoImage
    THEN LET pixel == getpixel(mask_image, x, y)
         IN [ok |-> pixel.ok, alpha |-> IF pixel.ok THEN pixel.ch[1] ELSE 0]
    ELSE LET pixel == getpixel(rgb_image, x, y)
         IN IF ~pixel.ok \/ ~pixel.tuple THEN [ok |-> FALSE, alpha |-> 0]
            ELSE [ok |-> TRUE,
                  alpha |-> IF Len(pixel.ch) >= 4 THEN pixel.ch[4] ELSE 255]

\* the colour of one pixel, lines 268-272: [ok, color]
read_color(rgb_image, x, y) ==
    LET pixel == getpixel(rgb_image, x, y)
    IN IF ~pixel.ok \/ ~pixel.tuple THEN [ok |-> FALSE, color |-> 0]
       ELSE [ok |-> TRUE,
             color |-> IF Len(pixel.ch) >= 3
                       THEN pack_color(pixel.ch[1], pixel.ch[2], pixel.ch[3])
                       ELSE 0]

\* the least pixel k of 1..n (row-major, x fastest) whose read raises,
\* n + 1 when none does: the loop stops there
FirstBad(ok, n) ==
    LET bad == {k \in 1..n : ~ok[k]}
    IN IF bad = {} THEN n + 1 ELSE CHOOSE k \in bad : \A j \in bad : k <= j

\* the alpha loop, lines 241-260, over the n pixels of the section;
\* [s, ok]: on an exception the bytes written so far stay written
write_alpha_plane(s, rgb_image, mask_image, w, y_base, n) ==
    LET a == [k \in 1..n |-> read_alpha(rgb_image, mask_image, (k - 1) % w,
                                         ((k - 1) \div w) + y_base)]
        stop == FirstBad([k \in 1..n |-> a[k].ok], n)
        data == [k \in 1..(stop - 1) |-> encode_alpha(a[k].alpha)]
    IN [s |-> write_bytes(s, data), ok |-> stop > n]

\* the colour loop, lines 266-275: two bytes a pixel, low byte first
write_color_plane(s, rgb_image, w, y_base, n) ==
    LET c == [k \in 1..n |-> read_color(rgb_image, (k - 1) % w,
                                         ((k - 1) \div w) + y_base)]
        stop == FirstBad([k \in 1..n |-> c[k].ok], n)
        word == [k \in 1..(stop - 1) |-> encode_color(c[k].color)]
        data == [j \in 1..(2 * (stop - 1)) |->
                    le_bytes(word[(j + 1) \div 2], 2)[2 - (j % 2)]]
    IN [s |-> write_bytes(s, data), ok |-> stop > n]

\* the section header and the alpha block tag and length, lines 228-239
write_section_header(s, w, h) ==
    LET s1 == write_int32(write_int32(write_int32(s, 0), 16), 0)
        s2 == write_int16(write_int16(s1, h), w)
        s3 == write_int16(write_int16(s2, 2064), w * 2)
        s4 == write_int32(s3, 0)
    IN write_int32(write_int32(s4, 11), w * h)

\* number of iterations of "for y in range(h): for x in range(w)"
LoopCount(w, h) == IF w > 0 /\ h > 0 THEN w * h ELSE 0

\* Png2Srf._write_image_section: [s, ok]
write_image_section(s, rgb_image, mask_image, w, h, y_base) ==
    LET n == LoopCount(w, h)
        a == write_alpha_plane(write_section_header(s, w, h),
                               rgb_image, mask_image, w, y_base, n)
    IN IF ~a.ok THEN a
       ELSE write_color_plane(write_int32(write_int32(a.s, 1), w * h * 2),
                              rgb_image, w, y_base, n)

(* ------------------------------- state -------------------------------- *)
VARIABLES
    info_file,     \* <base>_info.txt as parsed: [count, sections, mask]
    png_file,      \* <base>.png: an image
    mask_file,     \* the file MaskFile names: an image, NoImage when missing
    png2srf,       \* the Png2Srf instance: its fields
    enc,           \* position of Png2Srf.convert: [pc, i, cur_y_pos, bytes_written]
    srf_file,      \* the destination file: [opened, bytes]
    srf_input,     \* the file Srf2Png.convert opens: [origin, arg, bytes]
    srf2png,       \* the Srf2Png instance: its fields
    dec,           \* position and locals of Srf2Png.convert
    output_files,  \* what Srf2Png saved: [png, mask, info]
    probe          \* one value taken through the PixelCodec

vars == <<info_file, png_file, mask_file, png2srf, enc, srf_file,
          srf_input, srf2png, dec, output_files, probe>>

encVars == <<png2srf, enc, srf_file>>
decVars == <<srf_input, srf2png, dec, output_files>>
fileVars == <<info_file, png_file, mask_file>>

(* ------------------------------ inputs -------------------------------- *)
Dims == (0..MaxDim) \X (0..MaxDim)
ListCounts == (0..MaxSections) \cup {MaxLabel}

\* the sections an info file lists: the first of size d1, the others of d2
Layouts ==
    { [i \in 1..n |-> IF i = 1 THEN d1 ELSE d2] :
        n \in ListCounts, d1 \in Dims, d2 \in Dims }

\* the SectionCount an info file declares beside a list of n sections
Counts(n) == {n, 0, -1, -ArrayLen, ArrayLen, ArrayLen + 1}

InfoFiles ==
    { [count |-> c, sections |-> l, mask |-> m] :
        l \in Layouts, c \in UNION {Counts(n) : n \in ListCounts}, m \in BOOLEAN }

Widths(sections) == [i \in 1..Len(sections) |-> sections[i][1]]
Heights(sections) == [i \in 1..Len(sections) |-> sections[i][2]]

\* the size of the composite of the listed sections, at least 1 x 1
ListedWidth(info) ==
    IF info.sections = <<>> THEN 1 ELSE Max(1, MaxOf(Widths(info.sections)))
ListedHeight(info) == Max(1, SumOf(Heights(info.sections)))

\* an image as large as the listed sections need, one column narrower, one row shorter
ImageSizes(info) ==
    { s \in { <<ListedWidth(info), ListedHeight(info)>>,
              <<ListedWidth(info) - 1, ListedHeight(info)>>,
              <<ListedWidth(info), ListedHeight(info) - 1>> } :
        s[1] >= 1 /\ s[2] >= 1 }

Images(info) ==
    { [mode |-> m, width |-> s[1], height |-> s[2], seed |-> sd] :
        m \in Modes, s \in ImageSizes(info), sd \in 0..(NumSeeds - 1) }

\* the plain case: an RGBA image of seed 0, exactly as large as listed, no mask
SimpleImages(info, png, mask) ==
    /\ ~info.mask
    /\ mask = NoImage
    /\ png = [mode |-> "RGBA", width |-> ListedWidth(info),
              height |-> ListedHeight(info), seed |-> 0]

\* the plain case: one or two equal sections of nonzero size, counted right
SimpleLayout(info) ==
    /\ Len(info.sections) \in 1..2
    /\ info.count = Len(info.sections)
    /\ \A i \in 1..Len(info.sections) :
          /\ info.sections[i] = info.sections[1]
          /\ info.sections[i][1] > 0
          /\ info.sections[i][2] > 0

(* ---------------------- Png2Srf: the conversion ----------------------- *)
\* Png2Srf.__init__
Png2SrfInit ==
    [checksum |-> 0, section_count |-> 0,
     section_widths |-> [i \in 1..ArrayLen |-> 0],
     section_heights |-> [i \in 1..ArrayLen |-> 0],
     rgb_image |-> NoImage, mask_image |-> NoImage]

\* Srf2Png.__init__
Srf2PngInit ==
    [checksum |-> 0, section_count |-> 0,
     section_widths |-> [i \in 1..ArrayLen |-> 0],
     section_heights |-> [i \in 1..ArrayLen |-> 0],
     rgb_image |-> NoImage, mask_image |-> NoImage]

\* the position of the call of convert, and call: which call on the instance it is
EncInit == [pc |-> "init", i |-> 0, cur_y_pos |-> 0, bytes_written |-> 0, call |-> 1]
DecInit ==
    [pc |-> "idle", last |-> "idle", i |-> 0, cur_y_pos |-> 0, pos |-> 0,
     initial_position |-> 0, height |-> 0, width |-> 0, separate_mask |-> FALSE]
NoOutput == [png |-> NoImage, mask |-> NoImage, info |-> <<>>]
NoProbe == [kind |-> "none", pc |-> "none", in |-> <<>>, enc |-> <<>>, dec |-> <<>>]

InstancesInit ==
    /\ png2srf = Png2SrfInit
    /\ enc = EncInit
    /\ srf_file = [opened |-> FALSE, bytes |-> <<>>]
    /\ srf_input = [origin |-> "none", arg |-> 0, bytes |-> <<>>]
    /\ srf2png = Srf2PngInit
    /\ dec = DecInit
    /\ output_files = NoOutput

Init ==
    /\ info_file \in InfoFiles
    /\ IF SimpleLayout(info_file)
       THEN /\ png_file \in Images(info_file)
            /\ mask_file \in
                 IF info_file.mask
                 THEN {NoImage} \cup
                      { [mode |-> m, width |-> s[1], height |-> s[2], seed |-> 0] :
                           m \in {"L", "RGB"}, s \in ImageSizes(info_file) }
                 ELSE {NoImage}
       ELSE /\ png_file = [mode |-> "RGBA", width |-> ListedWidth(info_file),
                           height |-> ListedHeight(info_file), seed |-> 0]
            /\ mask_file = NoImage
            /\ SimpleImages(info_file, png_file, mask_file)
    /\ InstancesInit
    /\ probe = NoProbe

\* Png2Srf._read_info_file: SectionCount and the SectionWidth<n> / SectionHeight<n>
\* labels, n in 1..9, are stored; entries no label names keep their value
E_ReadInfo ==
    /\ enc.pc = "init"
    /\ png2srf' =
         [png2srf EXCEPT
            !.section_count = info_file.count,
            !.section_widths =
                [i \in 1..ArrayLen |->
                   IF i <= Len(info_file.sections) /\ i <= MaxLabel
                   THEN info_file.sections[i][1] ELSE png2srf.section_widths[i]],
            !.section_heights =
                [i \in 1..ArrayLen |->
                   IF i <= Len(info_file.sections) /\ i <= MaxLabel
                   THEN info_file.sections[i][2] ELSE png2srf.section_heights[i]]]
    /\ enc' = [enc EXCEPT !.pc = "info"]
    /\ UNCHANGED <<srf_file, fileVars, decVars, probe>>

\* Png2Srf._validate_sections: TRUE when it returns True; an index past the
\* arrays raises, which convert turns into failure as well
validate_sections(section_count, section_widths, section_heights) ==
    /\ section_count # 0
    /\ \A i \in 0..(section_count - 1) :
          /\ i < ArrayLen
          /\ section_heights[i + 1] # 0
          /\ section_widths[i + 1] # 0

E_Validate ==
    /\ enc.pc = "info"
    /\ enc' = [enc EXCEPT !.pc =
                 IF validate_sections(png2srf.section_count, png2srf.section_widths,
                                      png2srf.section_heights)
                 THEN "validated" ELSE "failed"]
    /\ UNCHANGED <<png2srf, srf_file, fileVars, decVars, probe>>

\* Png2Srf._load_images: "ok", "small" (an image is too small) or "error"
\* (max() of an empty list, or the mask file cannot be opened)
load_images(p, info, png, mask) ==
    LET ws == Slice(p.section_widths, p.section_count)
        hs == Slice(p.section_heights, p.section_count)
    IN IF ws = <<>> THEN "error"
       ELSE LET expected_image_width == MaxOf(ws)
                expected_image_height == SumOf(hs)
            IN IF info.mask /\ mask = NoImage THEN "error"
               ELSE IF info.mask /\ (mask.width < expected_image_width
                                     \/ mask.height < expected_image_height)
               THEN "small"
               ELSE IF png.width < expected_image_width
                       \/ png.height < expected_image_height
               THEN "small"
               ELSE "ok"

E_LoadImages ==
    /\ enc.pc = "validated"
    /\ LET r == load_images(png2srf, info_file, png_file, mask_file)
           opened == Slice(png2srf.section_widths, png2srf.section_count) # <<>>
       IN /\ png2srf' =
               [png2srf EXCEPT
                  !.rgb_image = IF opened THEN png_file ELSE @,
                  !.mask_image = IF opened /\ info_file.mask /\ mask_file # NoImage
                                 THEN mask_file ELSE @]
          /\ enc' = [enc EXCEPT !.pc = IF r = "ok" THEN "loaded" ELSE "failed"]
    /\ UNCHANGED <<srf_file, fileVars, decVars, probe>>

\* Png2Srf._write_srf_file up to its loop: open(srf_filename, 'wb') and
\* _write_srf_header
E_WriteHeader ==
    /\ enc.pc = "loaded"
    /\ LET s == write_srf_header([file |-> <<>>, checksum |-> png2srf.checksum],
                                 png2srf.section_count)
       IN /\ srf_file' = [opened |-> TRUE, bytes |-> s.file]
          /\ png2srf' = [png2srf EXCEPT !.checksum = s.checksum]
    /\ enc' = [enc EXCEPT !.pc = "sections", !.i = 0, !.cur_y_pos = 0]
    /\ UNCHANGED <<fileVars, decVars, probe>>

\* one iteration of the loop of _write_srf_file; an exception inside
\* _write_image_section leaves the with block and is caught: return False
E_WriteSection ==
    /\ enc.pc = "sections"
    /\ enc.i < png2srf.section_count
    /\ LET w == png2srf.section_widths[enc.i + 1]
           h == png2srf.section_heights[enc.i + 1]
           r == write_image_section(
                    [file |-> srf_file.bytes, checksum |-> png2srf.checksum],
                    png2srf.rgb_image, png2srf.mask_image, w, h, enc.cur_y_pos)
       IN /\ srf_file' = [srf_file EXCEPT !.bytes = r.s.file]
          /\ png2srf' = [png2srf EXCEPT !.checksum = r.s.checksum]
          /\ enc' = IF r.ok
                    THEN [enc EXCEPT !.i = enc.i + 1, !.cur_y_pos = enc.cur_y_pos + h]
                    ELSE [enc EXCEPT !.pc = "failed"]
    /\ UNCHANGED <<fileVars, decVars, probe>>

\* the end of _write_srf_file: _write_srf_footer, the file is closed
E_WriteFooter ==
    /\ enc.pc = "sections"
    /\ ~(enc.i < png2srf.section_count)
    /\ LET s == write_srf_footer(
                    [file |-> srf_file.bytes, checksum |-> png2srf.checksum])
       IN /\ srf_file' = [srf_file EXCEPT !.bytes = s.file]
          /\ png2srf' = [png2srf EXCEPT !.checksum = s.checksum]
    /\ enc' = [enc EXCEPT !.pc = "done", !.bytes_written = Len(srf_file.bytes)]
    /\ UNCHANGED <<fileVars, decVars, probe>>

\* the inputs of the calls that share one instance: one to MaxTruncSections
\* sections of one pixel, no mask, an RGBA image or a grayscale one (on
\* which the section loop raises)
ReuseInputs ==
    { [info |-> [count |-> n, sections |-> [i \in 1..n |-> <<1, 1>>], mask |-> FALSE],
       png |-> [mode |-> m, width |-> 1, height |-> n, seed |-> sd]] :
         n \in 1..MaxTruncSections, m \in {"RGBA", "L"}, sd \in 0..(NumSeeds - 1) }

\* convert is called again on the same Png2Srf, after a call that returned
\* True or False, with other input files and another destination: the
\* fields of the instance are those the last call left
E_Convert ==
    /\ enc.pc \in {"done", "failed"}
    /\ enc.call < MaxConverts
    /\ \E f \in ReuseInputs :
         /\ info_file' = f.info
         /\ png_file' = f.png
    /\ mask_file' = NoImage
    /\ enc' = [EncInit EXCEPT !.call = enc.call + 1]
    /\ srf_file' = [opened |-> FALSE, bytes |-> <<>>]
    /\ UNCHANGED <<png2srf, decVars, probe>>

(* ----------------------- Srf2Png: the conversion ----------------------- *)
\* srf_file.read(n) at offset pos: the bytes there are, at most n
read(bytes, pos, n) == SubSeq(bytes, pos + 1, Min(pos + n, Len(bytes)))

\* struct.unpack('<H' / '<I', data)[0] of a buffer of the full size
RECURSIVE unpack_le(_)
unpack_le(data) == IF data = <<>> THEN 0 ELSE Head(data) + 256 * unpack_le(Tail(data))

\* data.decode('ascii', errors='ignore')
decode_ascii(data) == SelectSeq(data, LAMBDA b : b < 128)

\* _read_p_string at pos: [ok, pos]; not ok when the length field is short
read_p_string(bytes, pos) ==
    LET lendata == read(bytes, pos, 4)
    IN IF Len(lendata) < 4 THEN [ok |-> FALSE, pos |-> pos + Len(lendata)]
       ELSE [ok |-> TRUE,
             pos |-> pos + 4 + Len(read(bytes, pos + 4, unpack_le(lendata)))]

\* _process_srf_file, lines 89-113: the magic, the section count, the two
\* strings, then the check of the count.  status: "ok", "invalid" (not an
\* SRF file), "toomany", or "error" (struct.error on a short read)
process_header(bytes) ==
    LET id == read(bytes, 0, 16)
        cdata == read(bytes, Len(id) + 8, 4)
        at == Len(id) + 8 + 4 + 4 + 7 + 4
        version == read_p_string(bytes, at)
        product == read_p_string(bytes, version.pos + 4)
    IN IF decode_ascii(id) # file_id
       THEN [status |-> "invalid", count_read |-> FALSE, section_count |-> 0,
             pos |-> Len(id)]
       ELSE IF Len(cdata) < 4
       THEN [status |-> "error", count_read |-> FALSE, section_count |-> 0,
             pos |-> Len(id) + 8 + Len(cdata)]
       ELSE IF ~version.ok
       THEN [status |-> "error", count_read |-> TRUE,
             section_count |-> unpack_le(cdata), pos |-> version.pos]
       ELSE IF ~product.ok
       THEN [status |-> "error", count_read |-> TRUE,
             section_count |-> unpack_le(cdata), pos |-> product.pos]
       ELSE [status |-> IF unpack_le(cdata) > MaxSectionCount THEN "toomany" ELSE "ok",
             count_read |-> TRUE,
             section_count |-> unpack_le(cdata), pos |-> product.pos]

\* the header of the stream is read; when it passes, _read_section_sizes is
\* entered and remembers the position
D_Header ==
    /\ dec.pc = "header"
    /\ LET r == process_header(srf_input.bytes)
       IN /\ srf2png' = [srf2png EXCEPT !.section_count =
                            IF r.count_read THEN r.section_count ELSE @]
          /\ dec' = [dec EXCEPT
                       !.pc = IF r.status = "ok" THEN "sizes" ELSE "failed",
                       !.last = "header",
                       !.pos = r.pos,
                       !.initial_position = IF r.status = "ok" THEN r.pos ELSE @,
                       !.i = 0]
    /\ UNCHANGED <<srf_input, output_files, fileVars, encVars, probe>>

\* the payload _read_section_sizes skips after the height and width of a
\* section, without the rest of the section header
section_skip_short(w, h) == 8 + w * h + 8 + w * h * 2

\* the payload _read_section_sizes skips after the height and width
section_skip(w, h) == 8 + 8 + w * h + 8 + w * h * 2

\* one iteration of the loop of _read_section_sizes
D_ReadSectionSize ==
    /\ dec.pc = "sizes"
    /\ dec.i < srf2png.section_count
    /\ LET hdata == read(srf_input.bytes, dec.pos + 12, 2)
           wdata == read(srf_input.bytes, dec.pos + 12 + Len(hdata), 2)
           ok == Len(hdata) = 2 /\ Len(wdata) = 2
           h == unpack_le(hdata)
           w == unpack_le(wdata)
       IN /\ srf2png' =
               IF ok
               THEN [srf2png EXCEPT !.section_heights[dec.i + 1] = h,
                                    !.section_widths[dec.i + 1] = w]
               ELSE srf2png
          /\ dec' =
               IF ok
               THEN [dec EXCEPT !.i = dec.i + 1, !.last = "sizes",
                                !.pos = dec.pos + 16 + section_skip(w, h)]
               ELSE [dec EXCEPT !.pc = "failed", !.last = "sizes",
                                !.pos = dec.pos + 12 + Len(hdata) + Len(wdata)]
    /\ UNCHANGED <<srf_input, output_files, fileVars, encVars, probe>>

\* Image.new(mode, (width, height)): every pixel zero; px holds the pixels put
new_image(mode, width, height) ==
    [mode |-> mode, width |-> width, height |-> height, seed |-> 0, px |-> <<>>]

\* the end of _read_section_sizes (the cursor goes back) and lines 118-130 of
\* _process_srf_file: the composite images are created
D_Allocate ==
    /\ dec.pc = "sizes"
    /\ ~(dec.i < srf2png.section_count)
    /\ LET full_image_width ==
               IF srf2png.section_count > 0
               THEN MaxOf(Slice(srf2png.section_widths, srf2png.section_count))
               ELSE 0
           full_image_height ==
               SumOf(Slice(srf2png.section_heights, srf2png.section_count))
       IN srf2png' =
            [srf2png EXCEPT
               !.rgb_image = new_image(IF dec.separate_mask THEN "RGB" ELSE "RGBA",
                                       full_image_width, full_image_height),
               !.mask_image = IF dec.separate_mask
                              THEN new_image("L", full_image_width, full_image_height)
                              ELSE @]
    /\ dec' = [dec EXCEPT !.pc = "sections", !.last = "allocate", !.i = 0,
                          !.cur_y_pos = 0, !.pos = dec.initial_position]
    /\ UNCHANGED <<srf_input, output_files, fileVars, encVars, probe>>

\* put_pixels without the running offset of the section: every section is
\* put at the top of the image
put_pixels_at_top(img, w, y_base, n, value) ==
    LET at == { <<k % w, k \div w>> : k \in 0..(n - 1) }
        pos(c) == c[2] * w + c[1]
    IN [img EXCEPT !.px =
          [c \in (DOMAIN img.px) \cup at |->
             IF c \in at THEN value[pos(c)] ELSE img.px[c]]]

\* Image.putpixel of value[k] for the positions k in 0..n-1 of a section w wide
put_pixels(img, w, y_base, n, value) ==
    LET at == { <<k % w, y_base + (k \div w)>> : k \in 0..(n - 1) }
        pos(c) == (c[2] - y_base) * w + c[1]
    IN [img EXCEPT !.px =
          [c \in (DOMAIN img.px) \cup at |->
             IF c \in at THEN value[pos(c)] ELSE img.px[c]]]

\* how many pixels the loop of lines 186-197 handles before it raises, were
\* short buffers read as zero bytes: all of them
pixels_done_zero_filled(alpha_buffer, rgb_buffer, img, width, height, y_base) ==
    LoopCount(width, height)

\* how many pixels the loop of lines 186-197 handles before it raises:
\* indexing past a buffer or putting a pixel outside the image is an IndexError
pixels_done(alpha_buffer, rgb_buffer, img, width, height, y_base) ==
    LET inbuf == Min(Len(alpha_buffer), Len(rgb_buffer) \div 2)
        n == Min(LoopCount(width, height), inbuf)
        outside == { k \in 0..(n - 1) :
                       \/ k % width >= img.width
                       \/ y_base + (k \div width) >= img.height }
    IN IF outside = {} THEN n
       ELSE CHOOSE k \in outside : \A j \in outside : k <= j

byte_at(buffer, k) == IF k + 1 <= Len(buffer) THEN buffer[k + 1] ELSE 0

\* Srf2Png._read_image_section for section dec.i
D_ReadImageSection ==
    /\ dec.pc = "sections"
    /\ dec.i < srf2png.section_count
    /\ LET bytes == srf_input.bytes
           hdata == read(bytes, dec.pos + 12, 2)
           wdata == read(bytes, dec.pos + 12 + Len(hdata), 2)
           at_l == dec.pos + 12 + Len(hdata) + Len(wdata) + 2
           ldata == read(bytes, at_l, 2)
           ok == Len(hdata) = 2 /\ Len(wdata) = 2 /\ Len(ldata) = 2
           height == unpack_le(hdata)
           width == unpack_le(wdata)
           at_a == at_l + 2 + 4 + 4 + 4
           alpha_buffer == read(bytes, at_a, width * height)
           at_c == at_a + Len(alpha_buffer) + 4 + 4
           rgb_buffer == read(bytes, at_c, width * height * 2)
           n == pixels_done(alpha_buffer, rgb_buffer, srf2png.rgb_image,
                            width, height, dec.cur_y_pos)
           alpha == [k \in 0..(n - 1) |-> decode_alpha(byte_at(alpha_buffer, k))]
           color == [k \in 0..(n - 1) |->
                       decode_color(byte_at(rgb_buffer, 2 * k),
                                    byte_at(rgb_buffer, 2 * k + 1))]
           rgba == [k \in 0..(n - 1) |-> color[k] \o <<alpha[k]>>]
       IN IF ~ok
          THEN /\ dec' = [dec EXCEPT !.pc = "failed", !.last = "sections",
                            !.pos = dec.pos + 12 + Len(hdata) + Len(wdata)
                                     + (IF Len(wdata) = 2 THEN 2 + Len(ldata) ELSE 0),
                            !.height = IF Len(hdata) = 2 THEN height ELSE @,
                            !.width = IF Len(hdata) = 2 /\ Len(wdata) = 2
                                      THEN width ELSE @]
               /\ srf2png' = srf2png
          ELSE /\ srf2png' =
                    IF dec.separate_mask
                    THEN [srf2png EXCEPT
                            !.rgb_image = put_pixels(@, width, dec.cur_y_pos, n, color),
                            !.mask_image = put_pixels(@, width, dec.cur_y_pos, n, alpha)]
                    ELSE [srf2png EXCEPT
                            !.rgb_image = put_pixels(@, width, dec.cur_y_pos, n, rgba)]
               /\ dec' =
                    IF n = LoopCount(width, height)
                    THEN [dec EXCEPT !.i = dec.i + 1, !.last = "sections",
                            !.cur_y_pos = dec.cur_y_pos
                                           + srf2png.section_heights[dec.i + 1],
                            !.pos = at_c + Len(rgb_buffer),
                            !.height = height, !.width = width]
                    ELSE [dec EXCEPT !.pc = "failed", !.last = "sections",
                            !.pos = at_c + Len(rgb_buffer),
                            !.height = height, !.width = width]
    /\ UNCHANGED <<srf_input, output_files, fileVars, encVars, probe>>

\* Srf2Png._write_info_file: the text of the info file, as its values
write_info_file(s, separate_mask, width, height) ==
    [mask |-> separate_mask, width |-> width, height |-> height,
     count |-> s.section_count,
     sections |-> [i \in 1..s.section_count |->
                     <<s.section_widths[i], s.section_heights[i]>>]]

\* lines 135-144 of _process_srf_file: the images and the info file are
\* saved.  Image.save of an image without pixels raises (the encoder is
\* refused a tile of zero extent) and nothing is kept
D_Save ==
    /\ dec.pc = "sections"
    /\ ~(dec.i < srf2png.section_count)
    /\ LET img == srf2png.rgb_image
           empty == img.width = 0 \/ img.height = 0
       IN /\ output_files' =
               IF empty THEN output_files
               ELSE [png |-> img,
                     mask |-> IF dec.separate_mask THEN srf2png.mask_image ELSE NoImage,
                     info |-> write_info_file(srf2png, dec.separate_mask,
                                              img.width, img.height)]
          /\ dec' = [dec EXCEPT !.pc = IF empty THEN "failed" ELSE "done",
                                !.last = "save"]
    /\ UNCHANGED <<srf_input, srf2png, fileVars, encVars, probe>>

(* ------------------- the streams Srf2Png is given --------------------- *)
\* the bytes of one section as _write_image_section lays them out
SectionHeaderLen == Len(write_section_header([file |-> <<>>, checksum |-> 0], 0, 0).file)
SectionLen(w, h) == SectionHeaderLen + w * h + 8 + w * h * 2

HeaderLen == Len(write_srf_header([file |-> <<>>, checksum |-> 0], 0).file)

\* the offset at which the encoder starts section k (0-based) of its stream
RECURSIVE SectionStart(_)
SectionStart(k) ==
    IF k = 0 THEN HeaderLen
    ELSE SectionStart(k - 1)
           + SectionLen(png2srf.section_widths[k], png2srf.section_heights[k])

\* bytes with the bytes at offset (0-based) replaced
Patch(bytes, offset, new) ==
    [j \in 1..Len(bytes) |->
       IF j > offset /\ j <= offset + Len(new) THEN new[j - offset] ELSE bytes[j]]

\* offset of the section count in the stream
CountOffset == 16 + 8

\* What reaches the decoder: the encoder's file as written; for the plain
\* layouts also the file with the low byte of its section count overwritten,
\* and the file with the height or the width in the header of its last
\* section overwritten with zero.
Tamperings ==
    {[kind |-> "encoded", arg |-> 0]}
      \cup (IF SimpleLayout(info_file)
            THEN {[kind |-> "count", arg |-> v] : v \in {0, MaxSectionCount + 1}}
                   \cup {[kind |-> k, arg |-> png2srf.section_count] :
                            k \in {"zero_height", "zero_width"}}
            ELSE {})

Tampered(bytes, t) ==
    CASE t.kind = "encoded" -> bytes
      [] t.kind = "count" -> Patch(bytes, CountOffset, <<t.arg>>)
      [] t.kind = "zero_height" -> Patch(bytes, SectionStart(t.arg - 1) + 12, <<0, 0>>)
      [] t.kind = "zero_width" -> Patch(bytes, SectionStart(t.arg - 1) + 14, <<0, 0>>)
      [] t.kind = "truncated" -> SubSeq(bytes, 1, t.arg)

\* the section count of a stream fits a signed 32-bit integer
CountFits(bytes) == bytes[CountOffset + 4] < 128

\* Srf2Png.convert opens the stream, with or without -m
D_Convert ==
    /\ enc.pc = "done"
    /\ dec.pc = "idle"
    /\ CountFits(srf_file.bytes)
    /\ \E t \in Tamperings :
         srf_input' = [origin |-> t.kind, arg |-> t.arg,
                       bytes |-> Tampered(srf_file.bytes, t)]
    /\ \E m \in BOOLEAN :
         dec' = [dec EXCEPT !.pc = "header", !.last = "convert", !.pos = 0,
                            !.separate_mask = m]
    /\ UNCHANGED <<srf2png, output_files, fileVars, encVars, probe>>

\* Srf2Png.convert opens a stream that ends early: the first n bytes of the
\* encoder's file
D_ConvertTruncated ==
    /\ enc.pc = "done"
    /\ dec.pc = "idle"
    /\ \E n \in 0..(Len(srf_file.bytes) - 1) :
         srf_input' = [origin |-> "truncated", arg |-> n,
                       bytes |-> Tampered(srf_file.bytes,
                                          [kind |-> "truncated", arg |-> n])]
    /\ dec' = [dec EXCEPT !.pc = "header", !.last = "convert", !.pos = 0,
                          !.separate_mask = FALSE]
    /\ UNCHANGED <<srf2png, output_files, fileVars, encVars, probe>>

(* --------------------- the codec on single values --------------------- *)
CornerValues == {0, 5, 250, 255}

\* (r, g, b): one channel takes every value, the two others corner values
ColorProbes ==
    { <<v, c1, c2>> : v \in 0..255, c1 \in CornerValues, c2 \in CornerValues }
      \cup { <<c1, v, c2>> : v \in 0..255, c1 \in CornerValues, c2 \in CornerValues }
      \cup { <<c1, c2, v>> : v \in 0..255, c1 \in CornerValues, c2 \in CornerValues }

FixedFiles ==
    /\ info_file = [count |-> 0, sections |-> <<>>, mask |-> FALSE]
    /\ png_file = [mode |-> "RGBA", width |-> 1, height |-> 1, seed |-> 0]
    /\ mask_file = NoImage

InitCodec ==
    /\ FixedFiles
    /\ InstancesInit
    /\ probe \in
         { [kind |-> "color", pc |-> "in", in |-> c, enc |-> <<>>, dec |-> <<>>] :
              c \in ColorProbes }
           \cup
         { [kind |-> "alpha", pc |-> "in", in |-> <<a>>, enc |-> <<>>, dec |-> <<>>] :
              a \in 0..255 }

\* lines 268-275 for one pixel: the colour is packed, encoded and written as
\* two bytes
P_EncodeColor ==
    /\ probe.kind = "color" /\ probe.pc = "in"
    /\ probe' = [probe EXCEPT
         !.pc = "encoded",
         !.enc = write_int16([file |-> <<>>, checksum |-> 0],
                     encode_color(pack_color(probe.in[1], probe.in[2], probe.in[3]))).file]
    /\ UNCHANGED <<fileVars, encVars, decVars>>

\* line 190 for one pixel
P_DecodeColor ==
    /\ probe.kind = "color" /\ probe.pc = "encoded"
    /\ probe' = [probe EXCEPT !.pc = "decoded",
                              !.dec = decode_color(probe.enc[1], probe.enc[2])]
    /\ UNCHANGED <<fileVars, encVars, decVars>>

\* lines 258-259 for one pixel
P_EncodeAlpha ==
    /\ probe.kind = "alpha" /\ probe.pc = "in"
    /\ probe' = [probe EXCEPT !.pc = "encoded", !.enc = <<encode_alpha(probe.in[1])>>]
    /\ UNCHANGED <<fileVars, encVars, decVars>>

\* line 189 for one pixel
P_DecodeAlpha ==
    /\ probe.kind = "alpha" /\ probe.pc = "encoded"
    /\ probe' = [probe EXCEPT !.pc = "decoded", !.dec = <<decode_alpha(probe.enc[1])>>]
    /\ UNCHANGED <<fileVars, encVars, decVars>>

(* --------------------------- specifications --------------------------- *)
Next ==
    \/ E_ReadInfo \/ E_Validate \/ E_LoadImages
    \/ E_WriteHeader \/ E_WriteSection \/ E_WriteFooter
    \/ D_Convert
    \/ D_Header \/ D_ReadSectionSize \/ D_Allocate \/ D_ReadImageSection \/ D_Save

\* encode, then decode what was written, as written or overwritten in a field
Spec == Init /\ [][Next]_vars

\* the streams whose truncations are decoded: equal sections of nonzero
\* size, the plain image
InitTrunc ==
    /\ info_file \in
         { [count |-> n, sections |-> [i \in 1..n |-> d], mask |-> FALSE] :
              n \in 1..MaxTruncSections, d \in (1..MaxDim) \X (1..MaxDim) }
    /\ png_file = [mode |-> "RGBA", width |-> ListedWidth(info_file),
                   height |-> ListedHeight(info_file), seed |-> 0]
    /\ mask_file = NoImage
    /\ InstancesInit
    /\ probe = NoProbe

NextTrunc ==
    \/ E_ReadInfo \/ E_Validate \/ E_LoadImages
    \/ E_WriteHeader \/ E_WriteSection \/ E_WriteFooter
    \/ D_ConvertTruncated
    \/ D_Header \/ D_ReadSectionSize \/ D_Allocate \/ D_ReadImageSection \/ D_Save

\* encode, then decode every proper prefix of what was written
SpecTrunc == InitTrunc /\ [][NextTrunc]_vars

InitReuse ==
    /\ \E f \in ReuseInputs :
         /\ info_file = f.info
         /\ png_file = f.png
    /\ mask_file = NoImage
    /\ InstancesInit
    /\ probe = NoProbe

NextReuse ==
    \/ E_ReadInfo \/ E_Validate \/ E_LoadImages
    \/ E_WriteHeader \/ E_WriteSection \/ E_WriteFooter
    \/ E_Convert

\* calls of convert, one after the other, on one Png2Srf instance
SpecReuse == InitReuse /\ [][NextReuse]_vars

NextCodec == P_EncodeColor \/ P_DecodeColor \/ P_EncodeAlpha \/ P_DecodeAlpha

\* single values through encode and decode
SpecCodec == InitCodec /\ [][NextCodec]_vars

(* ------------------------------ claims -------------------------------- *)
\* the bytes before the last one
Front(f) == SubSeq(f, 1, Len(f) - 1)

\* where the data of the encoder's stream end: after its last section
DataEnd ==
    IF png2srf.section_count > 0 THEN SectionStart(png2srf.section_count)
    ELSE HeaderLen

\* C1: when a conversion on a fresh Png2Srf has written its stream, the sum
\* of all bytes before the checkbyte plus the checkbyte is 0 mod 256, and the
\* accumulator holds the sum of exactly those bytes, the checkbyte not added.
ChecksumLaw ==
    enc.pc = "done" =>
        LET sum == SumBytes(Front(srf_file.bytes))
        IN /\ (sum + srf_file.bytes[Len(srf_file.bytes)]) % 256 = 0
           /\ png2srf.checksum = sum

\* a stream of two sections written with a mask, its checkbyte not zero
ChecksumWitness ==
    /\ enc.pc = "done"
    /\ png2srf.section_count = 2
    /\ png2srf.mask_image # NoImage
    /\ srf_file.bytes[Len(srf_file.bytes)] # 0

\* C2: an encoded stream is a multiple of 256 bytes long; between the data
\* and the single checkbyte stand only 0xFF bytes, between 0 and 255 of them,
\* the fewest that bring the length before the checkbyte to k*256 - 1.
PaddingLaw ==
    enc.pc = "done" =>
        LET f == srf_file.bytes
            pad == Len(f) - 1 - enc.bytes_written
        IN /\ Len(f) % 256 = 0
           /\ enc.bytes_written = DataEnd
           /\ pad \in 0..255
           /\ \A j \in (enc.bytes_written + 1)..(Len(f) - 1) : f[j] = 255
           /\ (enc.bytes_written + pad) % 256 = 255
           /\ \A q \in 0..(pad - 1) : (enc.bytes_written + q) % 256 # 255

\* a stream whose data end at k*256 - 1: no padding byte, only the checkbyte
PaddingWitness ==
    /\ enc.pc = "done"
    /\ png2srf.section_count >= 1
    /\ Len(srf_file.bytes) = enc.bytes_written + 1

\* C3 as claimed: decoding the two bytes written for the encoded colour of
\* (r, g, b) gives (r & 0xF8, g & 0xFC, b & 0xF8).
ColorLawClaimed ==
    (probe.kind = "color" /\ probe.pc = "decoded") =>
        probe.dec = << probe.in[1] - (probe.in[1] % 8),
                       probe.in[2] - (probe.in[2] % 4),
                       probe.in[3] - (probe.in[3] % 8) >>

\* C4 as claimed: alpha 255 decodes to 255 and alpha 0 decodes to 255.
AlphaExtremesClaimed ==
    (probe.kind = "alpha" /\ probe.pc = "decoded") =>
        /\ (probe.in[1] = 255 => probe.dec[1] = 255)
        /\ (probe.in[1] = 0 => probe.dec[1] = 255)

\* C4: encoded and decoded again, alpha 255 gives 255 and alpha 0 gives 0.
AlphaExtremes ==
    (probe.kind = "alpha" /\ probe.pc = "decoded") =>
        /\ (probe.in[1] = 255 => probe.dec[1] = 255)
        /\ (probe.in[1] = 0 => probe.dec[1] = 0)

\* alpha 0 has gone through encode (128) and decode
AlphaWitness ==
    /\ probe.kind = "alpha" /\ probe.pc = "decoded"
    /\ probe.in[1] = 0 /\ probe.enc[1] = 128

SameGeometry(n) ==
    /\ srf2png.section_count = png2srf.section_count
    /\ \A j \in 1..n :
          /\ srf2png.section_widths[j] = png2srf.section_widths[j]
          /\ srf2png.section_heights[j] = png2srf.section_heights[j]

\* C5: decoding the stream the encoder wrote for 1..9 sections of nonzero
\* size never fails; the sizing pass stands at the start of each successive
\* section header and records the encoder's sizes; afterwards the cursor is
\* back at the first section header; the second pass reads from each section
\* header the sizes the sizing pass recorded; the info written repeats the
\* encoder's count and sizes in order.
GeometryRoundTrip ==
    (srf_input.origin = "encoded" /\ png2srf.section_count \in 1..MaxSectionCount) =>
        /\ dec.pc # "failed"
        /\ dec.pc = "sizes" =>
              /\ dec.pos = SectionStart(dec.i)
              /\ SameGeometry(dec.i)
        /\ dec.pc = "sections" =>
              /\ dec.pos = SectionStart(dec.i)
              /\ dec.initial_position = SectionStart(0)
              /\ SameGeometry(png2srf.section_count)
              /\ dec.i > 0 =>
                    /\ dec.height = srf2png.section_heights[dec.i]
                    /\ dec.width = srf2png.section_widths[dec.i]
        /\ dec.pc = "done" =>
              /\ output_files.info.count = png2srf.section_count
              /\ output_files.info.sections =
                    [j \in 1..png2srf.section_count |->
                       <<png2srf.section_widths[j], png2srf.section_heights[j]>>]

\* a stream of sections of different sizes has been decoded and saved
GeometryWitness ==
    /\ srf_input.origin = "encoded"
    /\ dec.pc = "done"
    /\ png2srf.section_count >= 3
    /\ png2srf.section_widths[1] # png2srf.section_widths[2]
    /\ png2srf.section_heights[1] # png2srf.section_heights[2]

\* the info file gives a count outside 1..9, or no nonzero size for one of
\* the first count sections
InvalidSections ==
    \/ info_file.count \notin 1..MaxSectionCount
    \/ \E j \in 1..info_file.count :
          \/ j > Len(info_file.sections)
          \/ info_file.sections[j][1] = 0
          \/ info_file.sections[j][2] = 0

\* C6 as claimed: with a section count outside 1..9 or a zero width or height
\* among the first count sections, the destination file is never opened and
\* no byte is written.
EncoderValidationClaimed ==
    InvalidSections => (~srf_file.opened /\ srf_file.bytes = <<>>)

\* C7 as claimed: once the decoder has read a section count of 0 or above 9,
\* it has failed in the header: the sizing pass is not entered and no image
\* is created.
DecoderCountCheckClaimed ==
    (/\ dec.pc \notin {"idle", "header"}
     /\ dec.last # "convert"
     /\ (srf2png.section_count = 0 \/ srf2png.section_count > MaxSectionCount)) =>
        /\ dec.pc = "failed"
        /\ dec.last = "header"
        /\ srf2png.rgb_image = NoImage

\* C8: decoding a stream that ends before the end of the last section's
\* colour plane never reaches the saving of the images: nothing is saved,
\* and the conversion does not end in success.
TruncatedFails ==
    (srf_input.origin = "truncated" /\ srf_input.arg < enc.bytes_written) =>
        /\ dec.pc # "done"
        /\ ~(dec.pc = "sections" /\ dec.i >= srf2png.section_count)
        /\ output_files = NoOutput

\* a stream of two sections lacking the last byte of its last colour plane
\* has failed in the second pass, in its last section
TruncatedWitness ==
    /\ srf_input.origin = "truncated"
    /\ srf_input.arg = enc.bytes_written - 1
    /\ png2srf.section_count = 2
    /\ dec.pc = "failed"
    /\ dec.last = "sections"
    /\ dec.i = 1

\* C9 as claimed: when a section header of the stream declares width 0 or
\* height 0, nothing is saved and the conversion does not succeed.
DecoderZeroDimClaimed ==
    srf_input.origin \in {"zero_height", "zero_width"} =>
        (dec.pc # "done" /\ output_files = NoOutput)

\* C10 as claimed: when an encode conversion has failed, the destination
\* holds no byte written by it.
NoPartialOutputClaimed ==
    enc.pc = "failed" => srf_file.bytes = <<>>

\* C11 as claimed: on an instance used for several calls of convert, the
\* accumulator is zero when the first byte of a stream is about to be
\* written, and the bytes of every finished stream, the checkbyte included,
\* sum to 0 mod 256.
ReusedChecksumClaimed ==
    /\ enc.pc = "loaded" => png2srf.checksum = 0
    /\ enc.pc = "done" => SumBytes(srf_file.bytes) % 256 = 0

\* the vertical offset of section i (1-based): the heights before it
SectionTop(i) == SumRange(png2srf.section_heights, 1, i - 1)

\* the source pixel at (x, y) taken through the codec: the colour through
\* encode_color, the two bytes written and decode_color, the alpha (255 for
\* an image without an alpha channel) through encode_alpha and decode_alpha
ThroughCodec(x, y) ==
    LET ch == getpixel(png_file, x, y).ch
        word == encode_color(pack_color(ch[1], ch[2], ch[3]))
        alpha == IF Len(ch) >= 4 THEN ch[4] ELSE 255
    IN decode_color(word % 256, word \div 256) \o <<decode_alpha(encode_alpha(alpha))>>

\* an RGBA or RGB image was encoded without a mask
PlainSource ==
    /\ png_file.mode \in {"RGBA", "RGB"}
    /\ png2srf.mask_image = NoImage
    /\ png2srf.section_count \in 1..MaxSectionCount

\* C12: for an RGBA or RGB source encoded without a mask, in the stream
\* as the encoder leaves it each section holds its alpha plane, row-major, before its colour
\* plane, row-major, both read from the source at the section's vertical
\* offset; and when that stream is decoded into one RGBA image, the saved
\* pixel at (x, offset of section i + y) is the source pixel there taken
\* through the codec, for every section i, x < width i, y < height i.
PixelPlacement ==
    /\ (enc.pc = "done" /\ dec.pc = "idle" /\ PlainSource) =>
          \A i \in 1..png2srf.section_count :
             LET w == png2srf.section_widths[i]
                 h == png2srf.section_heights[i]
                 alpha_at == SectionStart(i - 1) + SectionHeaderLen
                 color_at == alpha_at + w * h + 8
             IN \A x \in 0..(w - 1), y \in 0..(h - 1) :
                   LET k == y * w + x
                       ch == getpixel(png_file, x, SectionTop(i) + y).ch
                       word == encode_color(pack_color(ch[1], ch[2], ch[3]))
                   IN /\ srf_file.bytes[alpha_at + k + 1] =
                           encode_alpha(IF Len(ch) >= 4 THEN ch[4] ELSE 255)
                      /\ srf_file.bytes[color_at + 2 * k + 1] = word % 256
                      /\ srf_file.bytes[color_at + 2 * k + 2] = word \div 256
    /\ (/\ srf_input.origin = "encoded" /\ dec.pc = "done"
        /\ ~dec.separate_mask /\ PlainSource) =>
          \A i \in 1..png2srf.section_count :
             \A x \in 0..(png2srf.section_widths[i] - 1),
                y \in 0..(png2srf.section_heights[i] - 1) :
                LET c == <<x, SectionTop(i) + y>>
                IN /\ c \in DOMAIN output_files.png.px
                   /\ output_files.png.px[c] = ThroughCodec(c[1], c[2])

\* an RGBA image of two or more sections, the first two rows or more high
\* and narrower than the second, has been decoded into one RGBA image
PixelPlacementWitness ==
    /\ srf_input.origin = "encoded" /\ dec.pc = "done"
    /\ ~dec.separate_mask /\ PlainSource
    /\ png_file.mode = "RGBA"
    /\ png2srf.section_count >= 2
    /\ png2srf.section_heights[1] >= 2
    /\ png2srf.section_widths[1] < png2srf.section_widths[2]

====
